---- MODULE Spec2Model ----
(***************************************************************************)
(* A model of tk-silhouette: the SilhouetteEngine menu bridge              *)
(* (src/engine.py) and the sequence path helpers                           *)
(* (src/python/tk_silhouette/utils.py).                                    *)
(*                                                                         *)
(* Spec     : the engine. create_shotgun_menu is followed statement by     *)
(*            statement through its loop over the app instances of the     *)
(*            other environments; destroy_engine is one step.              *)
(* SpecPath : the path helpers, each applied once to a path and a folder   *)
(*            drawn from small sets, and the inverse helper applied to     *)
(*            the result of the forward one.                               *)
(***************************************************************************)
EXTENDS Integers, Sequences, FiniteSets, TLC

\* Number of menu-build passes a behaviour may hold (post_app_init, then
\* post_context_change).
MaxPasses == 2

\* Number of commands one init_app call may register.
MaxReg == 2

VARIABLES
    commands,            \* self.commands: command name -> command, NoCmd when absent
    apps,                \* self.apps: the names of the session's active app instances
    envSet,              \* whether TK_SILHOUETTE_MENU_DIR is in os.environ
    pathSet,             \* whether self.custom_scripts_dir_path has been assigned
    dirExists,           \* whether the scratch directory is on disk
    files,               \* the scratch directory: file name -> command name bound in it
    pc,                  \* position: "idle", or inside create_shotgun_menu
    queue,               \* the (env, app instance) pairs the loops have still to visit
    old_command_keys,    \* the snapshot of line 54
    commands_to_write,   \* the accumulator of line 39
    app_obj,             \* the transient app instance alive, or NoApp
    result,              \* what the last operation returned or raised
    passes,              \* passes started
    commands0,           \* history: self.commands when the pass started
    visited,             \* history: pairs the loop body ran for in this pass
    tried,               \* history: pairs load_application was called for in this pass
    loaded,              \* history: pairs load_application returned for in this pass
    nDestroy,            \* history: destroy_app calls per pair in this pass
    failures,            \* history: app load/init failures in this pass
    dirWas               \* history: dirExists when destroy_engine was entered

engineVars == <<commands, apps, envSet, pathSet, dirExists, files, pc, queue,
                old_command_keys, commands_to_write, app_obj, result, passes,
                commands0, visited, tried, loaded, nDestroy, failures, dirWas>>

VARIABLES
    path,                \* the path handed to a path helper
    disk,                \* the paths on disk
    out                  \* what the last path helper returned or raised

pathVars == <<path, disk, out>>

vars == <<engineVars, pathVars>>

----------------------------------------------------------------------------
\* The pipeline configuration the engine reads (pc.get_environments(),
\* env_obj.get_engines(), env_obj.get_apps()).

CurEnv == "cur"
EnvNames == <<"cur", "e1", "e2", "e3">>
EnvsWithEngine == {"cur", "e1", "e2"}
EnvApps == [cur |-> <<"a1">>, e1 |-> <<"a1", "a2">>, e2 |-> <<"a3">>, e3 |-> <<"a4">>]

CmdNames == {"n1", "n2"}
ShortNames == {"", "s1", "tk_silhouette_cmd_0"}
Owners == {"cur", "e1", "e2"}

NoCmd == [owner |-> "none", short |-> ""]
NoApp == [env |-> "none", app |-> "none"]

Keys(d) == {n \in CmdNames : d[n] # NoCmd}
EmptyDict == [n \in CmdNames |-> NoCmd]
NoFiles == [f \in {} |-> "n1"]

RECURSIVE SeqOfApps(_, _)
SeqOfApps(env, as) ==
    IF as = <<>> THEN <<>>
    ELSE <<[env |-> env, app |-> Head(as)]>> \o SeqOfApps(env, Tail(as))

\* Lines 36-47: the environments other than the current one, in order, that
\* declare the engine, each with its app instances in order.
RECURSIVE EnvQueue(_)
EnvQueue(envs) ==
    IF envs = <<>> THEN <<>>
    ELSE LET e == Head(envs) IN
         (IF e # CurEnv /\ e \in EnvsWithEngine
             THEN SeqOfApps(e, EnvApps[e]) ELSE <<>>) \o EnvQueue(Tail(envs))

AllPairs == {EnvQueue(EnvNames)[i] : i \in 1..Len(EnvQueue(EnvNames))}

----------------------------------------------------------------------------
\* The engine: create_shotgun_menu

\* What app_obj.init_app() does to self.commands through the toolkit's
\* register_command: each command the app registers is stored under its
\* name, in place of a command already stored under that name.
Register(cmds, env, S, sh) ==
    [n \in CmdNames |-> IF n \in S THEN [owner |-> env, short |-> sh[n]] ELSE cmds[n]]

\* Lines 99-102: the names that were not in the snapshot are copied to the
\* accumulator and popped from the registry.
NewCommandNames(cmds, old) == Keys(cmds) \ old

MoveToWrite(ctw, cmds, old) ==
    [n \in CmdNames |-> IF n \in NewCommandNames(cmds, old) THEN cmds[n] ELSE ctw[n]]

PopNew(cmds, old) ==
    [n \in CmdNames |-> IF n \in NewCommandNames(cmds, old) THEN NoCmd ELSE cmds[n]]

\* Line 105: commands_to_write.update(self.commands)
UpdateDict(ctw, cmds) ==
    [n \in CmdNames |-> IF cmds[n] # NoCmd THEN cmds[n] ELSE ctw[n]]

\* Lines 117-118: short_name when present and non-empty, else the index name.
ActionClassName(i, command) ==
    IF command.short # "" THEN command.short
    ELSE "tk_silhouette_cmd_" \o ToString(i)

\* Line 187: the script path inside the scratch directory.
ScriptName(action_class) == action_class \o ".py"

\* Lines 188-204: open(script_path, "w") creates or truncates the file, which
\* then binds command_name.
WriteAction(fs, command_name, action_class) ==
    [f \in DOMAIN fs \cup {ScriptName(action_class)} |->
        IF f = ScriptName(action_class) THEN command_name ELSE fs[f]]

\* Lines 116-120: one action per item of the accumulator, in the order the
\* dictionary yields them, numbered from 0.
RECURSIVE WriteActions(_, _, _, _)
WriteActions(fs, order, i, ctw) ==
    IF i > Len(order) THEN fs
    ELSE WriteActions(
            WriteAction(fs, order[i], ActionClassName(i - 1, ctw[order[i]])),
            order, i + 1, ctw)

\* The orders in which a dictionary with keys S may yield its items.
Orders(S) ==
    {o \in [1..Cardinality(S) -> S] : \A i, j \in 1..Cardinality(S) : o[i] = o[j] => i = j}

\* Lines 112-113: every file of the directory is removed.
ClearDir(fs) == NoFiles

\* The registries the session's own apps leave behind when the engine has
\* loaded them.
OwnCommandSets ==
    {d \in [CmdNames -> {NoCmd} \cup [owner : {CurEnv}, short : ShortNames]] : TRUE}

ActiveAppSets == {{"a1"}, {"a1", "a3"}}

\* Lines 33-39.
BeginPass ==
    /\ pc' = "loop"
    /\ queue' = EnvQueue(EnvNames)
    /\ commands_to_write' = EmptyDict
    /\ commands0' = commands'
    /\ visited' = {}
    /\ tried' = {}
    /\ loaded' = {}
    /\ nDestroy' = [p \in AllPairs |-> 0]
    /\ failures' = 0
    /\ passes' = passes + 1
    /\ result' = "running"
    /\ UNCHANGED <<pathSet, dirExists, files, old_command_keys, app_obj, dirWas>>

\* Lines 130-132: the first pass, after the session's apps were loaded.
post_app_init ==
    /\ pc = "idle" /\ passes = 0 /\ result = "none"
    /\ UNCHANGED <<commands, apps, envSet>>
    /\ BeginPass
    /\ UNCHANGED pathVars

\* Lines 137-138: a pass after a context change; the framework has reloaded
\* the session's apps, which registered their commands afresh.
post_context_change ==
    /\ pc = "idle" /\ passes > 0 /\ passes < MaxPasses
    /\ result \in {"True", "KeyError"}
    /\ commands' \in OwnCommandSets
    /\ apps' \in ActiveAppSets
    /\ envSet' \in BOOLEAN
    /\ BeginPass
    /\ UNCHANGED pathVars

\* Line 53, condition false: the app instance is active in the session.
SkipApp ==
    /\ pc = "loop" /\ queue # <<>>
    /\ Head(queue).app \in apps
    /\ queue' = Tail(queue)
    /\ visited' = visited \cup {Head(queue)}
    /\ UNCHANGED <<commands, apps, envSet, pathSet, dirExists, files, pc,
                   old_command_keys, commands_to_write, app_obj, result, passes,
                   commands0, tried, loaded, nDestroy, failures, dirWas>>
    /\ UNCHANGED pathVars

\* Lines 54-57: the snapshot, and load_application returns the app.
LoadAppOk ==
    /\ pc = "loop" /\ queue # <<>>
    /\ Head(queue).app \notin apps
    /\ old_command_keys' = Keys(commands)
    /\ tried' = tried \cup {Head(queue)}
    /\ app_obj' = Head(queue)
    /\ loaded' = loaded \cup {Head(queue)}
    /\ pc' = "loaded"
    /\ UNCHANGED <<commands, apps, envSet, pathSet, dirExists, files, queue,
                   commands_to_write, result, passes, commands0, visited,
                   nDestroy, failures, dirWas>>
    /\ UNCHANGED pathVars

\* A variant of LoadAppFails in which the exception of load_application is
\* not caught and leaves create_shotgun_menu.
LoadAppFailsAborts ==
    /\ pc = "loop" /\ queue # <<>>
    /\ Head(queue).app \notin apps
    /\ old_command_keys' = Keys(commands)
    /\ tried' = tried \cup {Head(queue)}
    /\ failures' = failures + 1
    /\ result' = "TankError"
    /\ pc' = "idle"
    /\ UNCHANGED <<commands, apps, envSet, pathSet, dirExists, files, queue,
                   commands_to_write, app_obj, passes, commands0, visited,
                   loaded, nDestroy, dirWas>>
    /\ UNCHANGED pathVars

\* Lines 54-75: load_application raises TankError or another exception; it
\* is logged and the loop continues with the next app instance.
LoadAppFails ==
    /\ pc = "loop" /\ queue # <<>>
    /\ Head(queue).app \notin apps
    /\ \E kind \in {"TankError", "Exception"} : TRUE
    /\ old_command_keys' = Keys(commands)
    /\ tried' = tried \cup {Head(queue)}
    /\ failures' = failures + 1
    /\ queue' = Tail(queue)
    /\ visited' = visited \cup {Head(queue)}
    /\ UNCHANGED <<commands, apps, envSet, pathSet, dirExists, files, pc,
                   commands_to_write, app_obj, result, passes, commands0,
                   loaded, nDestroy, dirWas>>
    /\ UNCHANGED pathVars

\* Lines 79-94: init_app registers commands and returns or raises; either
\* exception is caught and logged.
InitApp ==
    /\ pc = "loaded"
    /\ \E S \in SUBSET CmdNames :
         /\ Cardinality(S) <= MaxReg
         /\ \E sh \in [S -> ShortNames] :
              commands' = Register(commands, app_obj.env, S, sh)
    /\ \E outcome \in {"ok", "TankError", "Exception"} :
         failures' = IF outcome = "ok" THEN failures ELSE failures + 1
    /\ pc' = "finally"
    /\ UNCHANGED <<apps, envSet, pathSet, dirExists, files, queue,
                   old_command_keys, commands_to_write, app_obj, result, passes,
                   commands0, visited, tried, loaded, nDestroy, dirWas>>
    /\ UNCHANGED pathVars

\* A variant of CleanupApp that moves the commands and forgets
\* app_obj.destroy_app().
CleanupAppNoDestroy ==
    /\ pc = "finally"
    /\ commands_to_write' = MoveToWrite(commands_to_write, commands, old_command_keys)
    /\ commands' = PopNew(commands, old_command_keys)
    /\ queue' = Tail(queue)
    /\ visited' = visited \cup {Head(queue)}
    /\ pc' = "loop"
    /\ UNCHANGED <<apps, envSet, pathSet, dirExists, files, old_command_keys,
                   app_obj, nDestroy, result, passes, commands0, tried, loaded,
                   failures, dirWas>>
    /\ UNCHANGED pathVars

\* Lines 96-103: the finally clause.
CleanupApp ==
    /\ pc = "finally"
    /\ commands_to_write' = MoveToWrite(commands_to_write, commands, old_command_keys)
    /\ commands' = PopNew(commands, old_command_keys)
    /\ nDestroy' = [nDestroy EXCEPT ![app_obj] = @ + 1]
    /\ app_obj' = NoApp
    /\ queue' = Tail(queue)
    /\ visited' = visited \cup {Head(queue)}
    /\ pc' = "loop"
    /\ UNCHANGED <<apps, envSet, pathSet, dirExists, files, old_command_keys,
                   result, passes, commands0, tried, loaded, failures, dirWas>>
    /\ UNCHANGED pathVars

\* Lines 105-108 with TK_SILHOUETTE_MENU_DIR unset: os.environ[...] raises
\* KeyError before the attribute is assigned.
FinishPassNoEnv ==
    /\ pc = "loop" /\ queue = <<>>
    /\ ~envSet
    /\ commands_to_write' = UpdateDict(commands_to_write, commands)
    /\ result' = "KeyError"
    /\ pc' = "idle"
    /\ UNCHANGED <<commands, apps, envSet, pathSet, dirExists, files, queue,
                   old_command_keys, app_obj, passes, commands0, visited,
                   tried, loaded, nDestroy, failures, dirWas>>
    /\ UNCHANGED pathVars

\* Lines 105-122: merge the session's commands, make and clear the scratch
\* directory, write the actions, return True.
FinishPass ==
    /\ pc = "loop" /\ queue = <<>>
    /\ envSet
    /\ commands_to_write' = UpdateDict(commands_to_write, commands)
    /\ pathSet' = TRUE
    /\ dirExists' = TRUE
    /\ \E order \in Orders(Keys(commands_to_write')) :
         files' = WriteActions(ClearDir(files), order, 1, commands_to_write')
    /\ result' = "True"
    /\ pc' = "idle"
    /\ UNCHANGED <<commands, apps, envSet, queue, old_command_keys, app_obj,
                   passes, commands0, visited, tried, loaded, nDestroy, failures,
                   dirWas>>
    /\ UNCHANGED pathVars

\* Lines 140-147.  shutil.rmtree(self.custom_scripts_dir_path): reading an
\* attribute that was never assigned raises AttributeError, which the
\* except OSError clause does not catch; a missing directory raises OSError
\* with errno 2, which is swallowed; any other OSError is raised again.
destroy_engine ==
    /\ pc = "idle"
    /\ result # "os_error"
    /\ dirWas' = dirExists
    /\ \E oserr \in {"none", "EACCES"} :
         IF ~pathSet
            THEN /\ result' = "AttributeError"
                 /\ UNCHANGED <<dirExists, files>>
         ELSE IF ~dirExists
            THEN /\ result' = "destroyed"
                 /\ UNCHANGED <<dirExists, files>>
         ELSE IF oserr = "none"
            THEN /\ result' = "destroyed"
                 /\ dirExists' = FALSE
                 /\ files' = NoFiles
         ELSE /\ result' = "OSError"
              /\ UNCHANGED <<dirExists, files>>
    /\ UNCHANGED <<commands, apps, envSet, pathSet, pc, queue, old_command_keys,
                   commands_to_write, app_obj, passes, commands0, visited,
                   tried, loaded, nDestroy, failures>>
    /\ UNCHANGED pathVars

EngineInit ==
    /\ commands \in OwnCommandSets
    /\ apps \in ActiveAppSets
    /\ envSet \in BOOLEAN
    /\ pathSet = FALSE
    /\ dirExists = FALSE
    /\ files = NoFiles
    /\ pc = "idle"
    /\ queue = <<>>
    /\ old_command_keys = {}
    /\ commands_to_write = EmptyDict
    /\ app_obj = NoApp
    /\ result = "none"
    /\ passes = 0
    /\ commands0 = commands
    /\ visited = {}
    /\ tried = {}
    /\ loaded = {}
    /\ nDestroy = [p \in AllPairs |-> 0]
    /\ failures = 0
    /\ dirWas = FALSE

NoOut == [op |-> "none", arg |-> <<>>, raised |-> "None", path |-> <<>>,
          err |-> <<>>, range |-> <<>>]

PathIdle ==
    /\ path = <<>>
    /\ disk = {}
    /\ out = NoOut

Init == EngineInit /\ PathIdle

Next ==
    \/ post_app_init
    \/ post_context_change
    \/ SkipApp
    \/ LoadAppOk
    \/ LoadAppFails
    \/ InitApp
    \/ CleanupApp
    \/ FinishPassNoEnv
    \/ FinishPass
    \/ destroy_engine

Spec == Init /\ [][Next]_vars

----------------------------------------------------------------------------
\* The path helpers (utils.py).  A path is a sequence of one-character
\* strings; the directory part is left out, every file lives in one folder.

\* Width of the SEQ key's format_spec in the pipeline's templates ("%02d").
SeqPad == 2

DigitChars == <<"0", "1", "2", "3", "4", "5", "6", "7", "8", "9">>
IsDigit(c) == \E i \in 1..10 : DigitChars[i] = c
DigitVal(c) == (CHOOSE i \in 1..10 : DigitChars[i] = c) - 1

\* "{}".format(n) for an integer n >= 0.
RECURSIVE Str(_)
Str(n) == IF n < 10 THEN <<DigitChars[n + 1]>>
          ELSE Str(n \div 10) \o <<DigitChars[(n % 10) + 1]>>

\* int(s) for a string of digits.
RECURSIVE IntOf(_)
IntOf(s) == IF s = <<>> THEN 0
            ELSE 10 * IntOf(SubSeq(s, 1, Len(s) - 1)) + DigitVal(s[Len(s)])

AllDigits(s) == s # <<>> /\ \A i \in 1..Len(s) : IsDigit(s[i])

RECURSIVE ZeroPad(_, _)
ZeroPad(s, w) == IF Len(s) >= w THEN s ELSE ZeroPad(<<"0">> \o s, w)

RECURSIVE Repeat(_, _)
Repeat(c, n) == IF n = 0 THEN <<>> ELSE <<c>> \o Repeat(c, n - 1)

StartsWithAt(p, i, w) ==
    /\ i + Len(w) - 1 <= Len(p)
    /\ \A k \in 1..Len(w) : p[i + k - 1] = w[k]

\* The number of digits of p starting at index i.
RECURSIVE DigitRun(_, _)
DigitRun(p, i) == IF i <= Len(p) /\ IsDigit(p[i]) THEN 1 + DigitRun(p, i + 1) ELSE 0

\* Line 8, SILHOUETTE_FRAME_REGEX = "\.\[(\d+)-\d+\]\.", tried at index i:
\* the index of the closing dot and the text of group 1, or no match.
NoMatch == [end |-> 0, g1 |-> <<>>]
FrameRegexAt(p, i) ==
    IF ~StartsWithAt(p, i, <<".", "[">>) THEN NoMatch
    ELSE LET a == DigitRun(p, i + 2)
             j == i + 2 + a
         IN IF a = 0 \/ ~StartsWithAt(p, j, <<"-">>) THEN NoMatch
            ELSE LET b == DigitRun(p, j + 1)
                     k == j + 1 + b
                 IN IF b = 0 \/ ~StartsWithAt(p, k, <<"]", ".">>) THEN NoMatch
                    ELSE [end |-> k + 1, g1 |-> SubSeq(p, i + 2, j - 1)]

\* Line 60, compiled_regex.search(path): the leftmost match.
RECURSIVE FrameRegexSearch(_, _)
FrameRegexSearch(p, i) ==
    IF i > Len(p) THEN NoMatch
    ELSE IF FrameRegexAt(p, i).end # 0 THEN FrameRegexAt(p, i)
    ELSE FrameRegexSearch(p, i + 1)

\* Line 67, compiled_regex.sub(".\g<1>.", path): every match, left to right
\* and not overlapping, becomes a dot, its own group 1 and a dot.
RECURSIVE FrameRegexSub(_, _)
FrameRegexSub(p, i) ==
    IF i > Len(p) THEN <<>>
    ELSE LET m == FrameRegexAt(p, i)
         IN IF m.end # 0 THEN <<".">> \o m.g1 \o <<".">> \o FrameRegexSub(p, m.end + 1)
            ELSE <<p[i]>> \o FrameRegexSub(p, i + 1)

\* str.replace(old, new) for a non-empty old: every occurrence, left to right
\* and not overlapping.
RECURSIVE StrReplace(_, _, _, _)
StrReplace(p, old, new, i) ==
    IF i > Len(p) THEN <<>>
    ELSE IF StartsWithAt(p, i, old) THEN new \o StrReplace(p, old, new, i + Len(old))
    ELSE <<p[i]>> \o StrReplace(p, old, new, i + 1)

\* The parts of p between its dots.
RECURSIVE SplitDots(_)
SplitDots(p) ==
    IF \A i \in 1..Len(p) : p[i] # "." THEN <<p>>
    ELSE LET d == CHOOSE i \in 1..Len(p) : p[i] = "." /\ \A k \in 1..(i - 1) : p[k] # "."
         IN <<SubSeq(p, 1, d - 1)>> \o SplitDots(SubSeq(p, d + 1, Len(p)))

----------------------------------------------------------------------------
\* The toolkit's template system as the helpers use it.  Two templates are
\* configured:  TSeq "{name}.{version}.{SEQ}.x" and TPlain "{name}.{version}.x".
\* name is a string key, version an integer key without default, SEQ a
\* sequence key whose format_spec is SeqPad wide and whose default is the
\* "%0<SeqPad>d" frame spec.

Ext == <<"x">>
PercentSpec == <<"%", "0", DigitChars[SeqPad + 1], "d">>
HashSpec == Repeat("#", SeqPad)
FrameSpecs == {PercentSpec, HashSpec}

\* A value of the SEQ key: an integer frame, or a frame spec string.
IntVal(n) == [t |-> "int", n |-> n, s |-> <<>>]
StrVal(s) == [t |-> "str", n |-> 0, s |-> s]

ValidName(s) == s # <<>>
ValidVersion(s) == AllDigits(s)
ValidSeq(s) ==
    \/ s \in FrameSpecs
    \/ AllDigits(s) /\ (Len(s) = SeqPad \/ (Len(s) > SeqPad /\ s[1] # "0"))

\* tk.template_from_path(path)
template_from_path(p) ==
    LET parts == SplitDots(p) IN
    IF Len(parts) = 4 /\ ValidName(parts[1]) /\ ValidVersion(parts[2])
       /\ ValidSeq(parts[3]) /\ parts[4] = Ext THEN "TSeq"
    ELSE IF Len(parts) = 3 /\ ValidName(parts[1]) /\ ValidVersion(parts[2])
       /\ parts[3] = Ext THEN "TPlain"
    ELSE "None"

TemplateKeys(t) == IF t = "TSeq" THEN {"name", "version", "SEQ"} ELSE {"name", "version"}

\* path_template.get_fields(path), for a path the template matches.
get_fields(t, p) ==
    LET parts == SplitDots(p) IN
    [keys |-> TemplateKeys(t),
     name |-> parts[1],
     version |-> IntOf(parts[2]),
     SEQ |-> IF t # "TSeq" THEN StrVal(<<>>)
             ELSE IF parts[3] \in FrameSpecs THEN StrVal(parts[3])
             ELSE IntVal(IntOf(parts[3]))]

SeqText(v) == IF v.t = "str" THEN v.s ELSE ZeroPad(Str(v.n), SeqPad)

\* path_template.apply_fields(fields): a missing key takes its default, and
\* a missing key without default raises TankError.
apply_fields(t, f) ==
    IF {"name", "version"} \ f.keys # {} THEN [raised |-> "TankError", path |-> <<>>]
    ELSE [raised |-> "None",
          path |-> f.name \o <<".">> \o Str(f.version) \o <<".">>
                   \o (IF t = "TSeq"
                          THEN (IF "SEQ" \in f.keys THEN SeqText(f.SEQ) ELSE PercentSpec)
                               \o <<".">>
                          ELSE <<>>)
                   \o Ext]

\* tk.paths_from_template(template, fields, ["SEQ", "eye"]): the files on disk
\* that fit the template with the same values for the keys not skipped.
paths_from_template(t, f, files_on_disk) ==
    {q \in files_on_disk :
        /\ template_from_path(q) = t
        /\ get_fields(t, q).name = f.name
        /\ get_fields(t, q).version = f.version}

SetMin(S) == CHOOSE x \in S : \A y \in S : x <= y
SetMax(S) == CHOOSE x \in S : \A y \in S : x >= y

\* A helper's outcome: what it raised ("None" when it returned), the path and
\* error message of a returned pair (err is <<>> for None, <<message>> for a
\* string), and the range of a returned range (<<>> for None).
Returned(p, e) == [raised |-> "None", path |-> p, err |-> e, range |-> <<>>]
ReturnedRange(r) == [raised |-> "None", path |-> <<>>, err |-> <<>>, range |-> r]
Raised(x) == [raised |-> x, path |-> <<>>, err |-> <<>>, range |-> <<>>]

\* os.path.splitext(path): the extension starts at the last dot, unless only
\* dots precede it.
LastDot(p) ==
    IF \A i \in 1..Len(p) : p[i] # "." THEN 0
    ELSE CHOOSE i \in 1..Len(p) : p[i] = "." /\ \A k \in (i + 1)..Len(p) : p[k] # "."
SplitextRoot(p) ==
    LET d == LastDot(p)
    IN IF d = 0 \/ \A k \in 1..(d - 1) : p[k] = "." THEN p ELSE SubSeq(p, 1, d - 1)

\* Lines 132-134: frame_pattern "([0-9#]+|[%]0\dd)$" finds something in root.
FramePatternMatches(root) ==
    \/ root # <<>> /\ (IsDigit(root[Len(root)]) \/ root[Len(root)] = "#")
    \/ /\ Len(root) >= 4
       /\ SubSeq(root, Len(root) - 3, Len(root) - 2) = <<"%", "0">>
       /\ IsDigit(root[Len(root) - 1])
       /\ root[Len(root)] = "d"

\* Lines 108-157.  Without a frame token the function returns None.  With one
\* it builds glob_path and calls glob.glob; the module imports os, re, fx and
\* sgtk only (lines 1-5), so the name glob is not defined and the call raises
\* NameError whatever the directory holds.
sequence_range_from_path(p, files_on_disk) ==
    IF ~FramePatternMatches(SplitextRoot(p)) THEN ReturnedRange(<<>>)
    ELSE Raised("NameError")

\* Lines 160-204.
find_sequence_range(p, files_on_disk) ==
    LET t == template_from_path(p) IN
    IF t = "None" THEN sequence_range_from_path(p, files_on_disk)
    ELSE IF "SEQ" \notin get_fields(t, p).keys
        THEN sequence_range_from_path(p, files_on_disk)
    ELSE LET found == paths_from_template(t, get_fields(t, p), files_on_disk)
             frames == {get_fields(t, q).SEQ.n : q \in
                            {q \in found : get_fields(t, q).SEQ.t = "int"}}
         IN IF frames = {} THEN ReturnedRange(<<>>)
            ELSE ReturnedRange(<<SetMin(frames), SetMax(frames)>>)

NoTemplateMsg == "Path does not fit any template. Not formatting it with frame range."
NoSeqKeyMsg == "Path fits template which has no key called SEQ. Not formatting it with frame range."
NoBracketMsg == "No [start-end] found in source path. Not formatting dependency path."
NoTemplateFoundMsg == "No template found to match path. Not formatting dependency path."

\* A variant of seq_path_to_silhouette_format that forgets the error message
\* for a template without SEQ key.
seq_path_to_silhouette_format_silent(p, files_on_disk) ==
    LET t == template_from_path(p) IN
    IF t = "None" THEN Returned(p, <<NoTemplateMsg>>)
    ELSE IF "SEQ" \notin get_fields(t, p).keys THEN Returned(p, <<>>)
    ELSE LET r == find_sequence_range(p, files_on_disk)
             v == get_fields(t, p).SEQ
         IN IF r.raised # "None" THEN Raised(r.raised)
            ELSE IF r.range = <<>> THEN Raised("TypeError")
            ELSE IF v.t = "int" THEN Raised("TypeError")
            ELSE Returned(
                    StrReplace(p, v.s,
                        <<"[">> \o Str(r.range[1]) \o <<"-">> \o Str(r.range[2]) \o <<"]">>,
                        1),
                    <<>>)

\* Lines 10-45.  Unpacking a None range raises TypeError (line 29), and so
\* does str.replace with an integer SEQ value (line 37).
seq_path_to_silhouette_format(p, files_on_disk) ==
    LET t == template_from_path(p) IN
    IF t = "None" THEN Returned(p, <<NoTemplateMsg>>)
    ELSE IF "SEQ" \notin get_fields(t, p).keys THEN Returned(p, <<NoSeqKeyMsg>>)
    ELSE LET r == find_sequence_range(p, files_on_disk)
             v == get_fields(t, p).SEQ
         IN IF r.raised # "None" THEN Raised(r.raised)
            ELSE IF r.range = <<>> THEN Raised("TypeError")
            ELSE IF v.t = "int" THEN Raised("TypeError")
            ELSE Returned(
                    StrReplace(p, v.s,
                        <<"[">> \o Str(r.range[1]) \o <<"-">> \o Str(r.range[2]) \o <<"]">>,
                        1),
                    <<>>)

\* Lines 77-79: every field whose value equals first_frame is deleted.
DropFirstFrame(f, first_frame) ==
    [f EXCEPT !.keys =
        {k \in f.keys :
            ~ \/ (k = "version" /\ f.version = first_frame)
              \/ (k = "SEQ" /\ f.SEQ.t = "int" /\ f.SEQ.n = first_frame)}]

\* Lines 47-82.
seq_path_from_silhouette_format(p) ==
    LET m == FrameRegexSearch(p, 1) IN
    IF m.end = 0 THEN Returned(p, <<NoBracketMsg>>)
    ELSE LET first_frame == IntOf(m.g1)
             first_frame_path == FrameRegexSub(p, 1)
             t == template_from_path(first_frame_path)
         IN IF t = "None" THEN Returned(p, <<NoTemplateFoundMsg>>)
            ELSE LET a == apply_fields(t,
                              DropFirstFrame(get_fields(t, first_frame_path), first_frame))
                 IN IF a.raised # "None" THEN Raised(a.raised)
                    ELSE Returned(a.path, <<>>)

----------------------------------------------------------------------------
\* SpecPath: the path helpers applied to paths and folders drawn from small
\* sets.

NameVals == {<<"s">>, HashSpec}
VersionVals == {1, 10}
FrameVals == {1, 10, 12}

BuildSeq(name, version, v) ==
    name \o <<".">> \o Str(version) \o <<".">> \o SeqText(v) \o <<".">> \o Ext
BuildPlain(name, version) == name \o <<".">> \o Str(version) \o <<".">> \o Ext
BuildHost(name, version, a, b) ==
    name \o <<".">> \o Str(version) \o <<".", "[">> \o Str(a) \o <<"-">> \o Str(b)
         \o <<"]", ".">> \o Ext
BuildLoose(name, tok) == name \o <<"_">> \o tok \o <<".">> \o Ext

InputPaths(name, version) ==
    {BuildSeq(name, version, StrVal(PercentSpec)),
     BuildSeq(name, version, StrVal(HashSpec)),
     BuildSeq(name, version, IntVal(10)),
     BuildPlain(name, version),
     BuildHost(name, version, 1, 12),
     BuildHost(name, version, 10, 12),
     BuildHost(name, version, 12, 12) \o <<".">> \o Ext,
     name \o <<"_">> \o Str(version) \o <<"[", "1", "-", "2", "]", ".">> \o Ext,
     BuildLoose(name, ZeroPad(Str(10), SeqPad)),
     BuildLoose(name, PercentSpec),
     name \o <<".">> \o Ext}

\* A folder holding the frames F of one sequence, under the template's naming
\* and under the loose name_<frame>.x naming.
Folder(name, version, F) ==
    {BuildSeq(name, version, IntVal(f)) : f \in F}
        \cup {BuildLoose(name, ZeroPad(Str(f), SeqPad)) : f \in F}

EngineIdle ==
    /\ commands = EmptyDict
    /\ apps = {}
    /\ envSet = FALSE
    /\ pathSet = FALSE
    /\ dirExists = FALSE
    /\ files = NoFiles
    /\ pc = "idle"
    /\ queue = <<>>
    /\ old_command_keys = {}
    /\ commands_to_write = EmptyDict
    /\ app_obj = NoApp
    /\ result = "none"
    /\ passes = 0
    /\ commands0 = EmptyDict
    /\ visited = {}
    /\ tried = {}
    /\ loaded = {}
    /\ nDestroy = [p \in AllPairs |-> 0]
    /\ failures = 0
    /\ dirWas = FALSE

InitPath ==
    /\ EngineIdle
    /\ \E name \in NameVals, version \in VersionVals, F \in SUBSET FrameVals :
         /\ path \in InputPaths(name, version)
         /\ disk = Folder(name, version, F)
    /\ out = NoOut

Call(op, arg, r) ==
    [op |-> op, arg |-> arg, raised |-> r.raised, path |-> r.path, err |-> r.err,
     range |-> r.range]

ToSilhouette ==
    /\ out.op = "none"
    /\ out' = Call("to", path, seq_path_to_silhouette_format(path, disk))
    /\ UNCHANGED <<path, disk, engineVars>>

\* The inverse applied to what seq_path_to_silhouette_format returned.
FromSilhouetteBack ==
    /\ out.op = "to" /\ out.raised = "None"
    /\ out' = Call("back", out.path, seq_path_from_silhouette_format(out.path))
    /\ UNCHANGED <<path, disk, engineVars>>

FromSilhouette ==
    /\ out.op = "none"
    /\ out' = Call("from", path, seq_path_from_silhouette_format(path))
    /\ UNCHANGED <<path, disk, engineVars>>

SequenceRangeFromPath ==
    /\ out.op = "none"
    /\ out' = Call("range", path, sequence_range_from_path(path, disk))
    /\ UNCHANGED <<path, disk, engineVars>>

FindSequenceRange ==
    /\ out.op = "none"
    /\ out' = Call("find", path, find_sequence_range(path, disk))
    /\ UNCHANGED <<path, disk, engineVars>>

NextPath ==
    \/ ToSilhouette
    \/ FromSilhouetteBack
    \/ FromSilhouette
    \/ SequenceRangeFromPath
    \/ FindSequenceRange

SpecPath == InitPath /\ [][NextPath]_vars

----------------------------------------------------------------------------
\* Claims about the engine, checked under Spec.

\* create_shotgun_menu has returned True and nothing has run since.
PassDone == pc = "idle" /\ result = "True"

\* create_shotgun_menu has ended (returned or raised) and nothing has run since.
PassEnded == pc = "idle" /\ passes > 0
             /\ result \notin {"destroyed", "AttributeError", "OSError"}

\* C1: after every completed menu-build pass the scratch directory holds
\* exactly one action file per command name of the accumulated command set
\* (and so no file left from an earlier pass).
C1_OneFilePerCommand ==
    PassDone =>
        /\ Cardinality(DOMAIN files) = Cardinality(Keys(commands_to_write))
        /\ \A n \in Keys(commands_to_write) : \E f \in DOMAIN files : files[f] = n
        /\ \A f \in DOMAIN files : files[f] \in Keys(commands_to_write)

\* C2: a command name the active environment had registered when the pass
\* started is, after the pass, still bound to the active environment's
\* command, in the accumulator that was written out and in the registry.
C2_ActiveEnvWins ==
    PassDone =>
        \A n \in Keys(commands0) :
            /\ commands_to_write[n] = commands0[n]
            /\ commands[n] = commands0[n]

\* The files of the scratch directory are what a write of the accumulator
\* into an empty directory leaves: each binds an accumulated command under
\* one of the class names that command can get.
FilesFresh ==
    /\ \A f \in DOMAIN files :
          /\ files[f] \in Keys(commands_to_write)
          /\ \E i \in 0..(Cardinality(CmdNames) - 1) :
                f = ScriptName(ActionClassName(i, commands_to_write[files[f]]))
    /\ (Keys(commands_to_write) # {} => DOMAIN files # {})

\* C3: whatever apps failed to load or initialize, a pass that has ended has
\* run the loop for every app instance of every other environment, and, the
\* environment variable being set, has assigned the path, made the
\* directory, rewritten it and returned True.
C3_FailureNeverAborts ==
    PassEnded =>
        /\ visited = AllPairs
        /\ queue = <<>>
        /\ (envSet => /\ result = "True"
                       /\ pathSet /\ dirExists
                       /\ FilesFresh)

\* C3 witness: a pass in which both transient apps failed, the first of the
\* enumeration included, has returned True.
C3_Witness ==
    /\ PassDone
    /\ failures >= 2
    /\ tried = {p \in AllPairs : p.app \notin apps}
    /\ Cardinality(tried) = 2
    /\ loaded = {}
    /\ Keys(commands_to_write) # {}

\* C4: destroy_engine entered with no scratch directory on disk does not raise.
C4_DestroyNeverRaises ==
    (result \in {"destroyed", "AttributeError", "OSError"} /\ ~dirWas)
        => result = "destroyed"

\* C8: a pass leaves the registry as it found it, and no command of a
\* transient app stays in it.
C8_RegistryUnchanged ==
    PassDone =>
        /\ commands = commands0
        /\ \A n \in CmdNames : commands[n].owner \in {"none", CurEnv}

\* C9: an app instance active in the session is never loaded or destroyed;
\* a loaded transient app is destroyed exactly once, after its init_app
\* attempt and before the loop goes on, so none is alive between apps or
\* when the pass writes the files and returns.
C9_TransientDestroyedOnce ==
    /\ \A p \in AllPairs :
          /\ (p.app \in apps => p \notin tried /\ p \notin loaded /\ nDestroy[p] = 0)
          /\ nDestroy[p] = (IF p \in loaded /\ p # app_obj THEN 1 ELSE 0)
    /\ (pc \in {"loop", "idle"} => app_obj = NoApp)
    /\ (pc \in {"loaded", "finally"} => app_obj = Head(queue) /\ app_obj \in loaded)

\* C9 witness: a pass that skipped an active app, loaded two transient apps
\* of which one failed to initialize, and has written the files.
C9_Witness ==
    /\ PassDone
    /\ Cardinality(loaded) = 2
    /\ failures >= 1
    /\ \E p \in AllPairs : p.app \in apps
    /\ DOMAIN files # {}

----------------------------------------------------------------------------
\* Claims about the path helpers, checked under SpecPath.

\* The frames of the folder that belong to the sequence of path.
FramesOf(p, files_on_disk) ==
    LET t == template_from_path(p)
    IN {get_fields(t, q).SEQ.n : q \in paths_from_template(t, get_fields(t, p), files_on_disk)}

\* C5: for a path that fits a template with a SEQ key and has frames on disk,
\* seq_path_to_silhouette_format returns, and seq_path_from_silhouette_format
\* of its result returns without error a path with the same name and version
\* and the default SEQ.  Stated for a SEQ value that is a frame spec and for
\* frames that print at the full width of the key.
C5_RoundTrip ==
    LET t == template_from_path(path) IN
    (/\ t = "TSeq"
     /\ get_fields(t, path).SEQ.t = "str"
     /\ FramesOf(path, disk) # {}
     /\ \A f \in FramesOf(path, disk) : Len(Str(f)) >= SeqPad)
    => /\ (out.op = "to" => out.raised = "None" /\ out.err = <<>>)
       /\ (out.op = "back" =>
             /\ out.raised = "None"
             /\ out.err = <<>>
             /\ template_from_path(out.path) = "TSeq"
             /\ get_fields("TSeq", out.path).name = get_fields(t, path).name
             /\ get_fields("TSeq", out.path).version = get_fields(t, path).version
             /\ get_fields("TSeq", out.path).SEQ = StrVal(PercentSpec))

\* The inputs the helpers answer with the unchanged path and a message.
ToNoMatch(p) ==
    \/ template_from_path(p) = "None"
    \/ "SEQ" \notin TemplateKeys(template_from_path(p))
FromNoMatch(p) ==
    \/ FrameRegexSearch(p, 1).end = 0
    \/ template_from_path(FrameRegexSub(p, 1)) = "None"

\* C6: on a no-match input a path helper returns (it does not raise) the
\* input path with a non-empty message; whenever else it returns, the error
\* is None.
C6_NoMatchReturnsError ==
    /\ (out.op = "to" /\ ToNoMatch(out.arg)) =>
          /\ out.raised = "None" /\ out.path = out.arg
          /\ out.err # <<>> /\ out.err[1] # ""
    /\ (out.op \in {"from", "back"} /\ FromNoMatch(out.arg)) =>
          /\ out.raised = "None" /\ out.path = out.arg
          /\ out.err # <<>> /\ out.err[1] # ""
    /\ (out.op = "to" /\ ~ToNoMatch(out.arg) /\ out.raised = "None") => out.err = <<>>
    /\ (out.op \in {"from", "back"} /\ ~FromNoMatch(out.arg) /\ out.raised = "None")
          => out.err = <<>>

\* C6 witness: seq_path_to_silhouette_format was given a path of the template
\* without SEQ key and returned it with a message.
C6_Witness ==
    /\ out.op = "to"
    /\ template_from_path(out.arg) = "TPlain"
    /\ out.raised = "None"
    /\ out.path = out.arg
    /\ out.err # <<>>

\* The frame token frame_pattern finds at the end of root, and the files of
\* the folder named like path with another token in its place.
RECURSIVE TokenRun(_)
TokenRun(root) ==
    IF root # <<>> /\ (IsDigit(root[Len(root)]) \/ root[Len(root)] = "#")
        THEN 1 + TokenRun(SubSeq(root, 1, Len(root) - 1)) ELSE 0
TokenLen(root) == IF TokenRun(root) > 0 THEN TokenRun(root) ELSE 4
SplitextExt(p) == SubSeq(p, Len(SplitextRoot(p)) + 1, Len(p))
Stem(p) == SubSeq(SplitextRoot(p), 1, Len(SplitextRoot(p)) - TokenLen(SplitextRoot(p)))
SiblingFrames(p, files_on_disk) ==
    {IntOf(SubSeq(SplitextRoot(q), Len(Stem(p)) + 1, Len(SplitextRoot(q)))) :
        q \in {q \in files_on_disk :
                 /\ SplitextExt(q) = SplitextExt(p)
                 /\ Len(SplitextRoot(q)) > Len(Stem(p))
                 /\ SubSeq(SplitextRoot(q), 1, Len(Stem(p))) = Stem(p)
                 /\ AllDigits(SubSeq(SplitextRoot(q), Len(Stem(p)) + 1,
                                     Len(SplitextRoot(q))))}}

\* C7: sequence_range_from_path returns None for a path without frame token,
\* and otherwise returns (it does not raise) the least and greatest frame of
\* the files named like the path.
C7_RangeFromPath ==
    out.op = "range" =>
        /\ out.raised = "None"
        /\ (~FramePatternMatches(SplitextRoot(out.arg)) => out.range = <<>>)
        /\ (FramePatternMatches(SplitextRoot(out.arg))
            /\ SiblingFrames(out.arg, disk) # {}) =>
               out.range = <<SetMin(SiblingFrames(out.arg, disk)),
                             SetMax(SiblingFrames(out.arg, disk))>>

\* C10: when the path has a bracket and its first-frame path fits a template,
\* seq_path_from_silhouette_format returns a path of that template in which
\* every key but SEQ has the value it has in the first-frame path.
C10_OnlySeqStripped ==
    (out.op \in {"from", "back"} /\ ~FromNoMatch(out.arg)) =>
        LET ffp == FrameRegexSub(out.arg, 1)
            t == template_from_path(ffp)
        IN /\ out.raised = "None"
           /\ template_from_path(out.path) = t
           /\ get_fields(t, out.path).name = get_fields(t, ffp).name
           /\ get_fields(t, out.path).version = get_fields(t, ffp).version

====
